---- MODULE Spec2Model ----
(***************************************************************************)
(* Model of tools/cdk-release/lib/lifecycles/changelog.ts: writeChangelogs *)
(* and changelog, the renderer they drive, and the files they touch.       *)
(*                                                                         *)
(* Text is a sequence of one-character strings, so that the split-point    *)
(* search and the trailing-newline replacement are computed on characters  *)
(* as the regular expressions of the source compute them.                  *)
(***************************************************************************)
EXTENDS Integers, Sequences, FiniteSets, TLC

VARIABLES files, calls, wc, log, microtasks

vars == <<files, calls, wc, log, microtasks>>

----------------------------------------------------------------------------
(* Bounds of the model *)

\* most text chunks one render emits before it signals end or error
MaxChunks == 2
\* most packages in the package list handed to writeChangelogs
MaxPkgs == 2
\* most segments an initial changelog file is made of
MaxSegs == 3
MaxSeries == 3

----------------------------------------------------------------------------
(* JavaScript values *)

\* the value of an optional field that is not set; its one element is not a
\* character, so it equals no text
Undefined == <<"<undefined>">>

\* what string concatenation makes of a value (args.changeLogHeader + '\n')
ToJsString(v) == IF v = Undefined THEN <<"u", "n", "d", "e", "f", "i", "n", "e", "d">> ELSE v

\* !v of the source, for a string or undefined
Falsy(v) == v = Undefined \/ v = <<>>

Min(S) == CHOOSE x \in S : \A y \in S : x <= y

----------------------------------------------------------------------------
(* START_OF_LAST_RELEASE_PATTERN and the string operations on it *)

Digits == {"0", "1", "2", "3", "4", "5", "6", "7", "8", "9"}

\* the characters after which ^ matches under the m flag
LineTerminators == {"\n", "\r"}

AnchorTag == <<"<", "a", " ", "n", "a", "m", "e", "=">>

\* the first index >= i of s that holds no character of set (a greedy X+)
RECURSIVE RunEnd(_, _, _)
RunEnd(s, i, set) ==
    IF i <= Len(s) /\ s[i] \in set THEN RunEnd(s, i + 1, set) ELSE i

\* ^#+ \[?[0-9]+\.[0-9]+\.[0-9]+ matches at index i (1-based) of s
MatchesHeading(s, i) ==
    LET h  == RunEnd(s, i, {"#"})
        b  == IF h + 1 <= Len(s) /\ s[h + 1] = "[" THEN h + 2 ELSE h + 1
        d1 == RunEnd(s, b, Digits)
        d2 == RunEnd(s, d1 + 1, Digits)
        d3 == RunEnd(s, d2 + 1, Digits)
    IN  /\ (i = 1 \/ s[i - 1] \in LineTerminators)
        /\ h > i /\ h <= Len(s) /\ s[h] = " "
        /\ d1 > b /\ d1 <= Len(s) /\ s[d1] = "."
        /\ d2 > d1 + 1 /\ d2 <= Len(s) /\ s[d2] = "."
        /\ d3 > d2 + 1

\* <a name= matches at index i (1-based) of s
MatchesAnchor(s, i) ==
    i + Len(AnchorTag) - 1 <= Len(s) /\ SubSeq(s, i, i + Len(AnchorTag) - 1) = AnchorTag

START_OF_LAST_RELEASE_PATTERN(s, i) == MatchesHeading(s, i) \/ MatchesAnchor(s, i)

\* String.prototype.search: the 0-based index of the first match, or -1
Search(s) ==
    LET hits == {i \in 1..Len(s) : START_OF_LAST_RELEASE_PATTERN(s, i)}
    IN  IF hits = {} THEN -1 ELSE Min(hits) - 1

\* String.prototype.substring(start), start 0-based
Substring(s, start) == SubSeq(s, start + 1, Len(s))

\* the index where the run of newlines that ends s starts (Len(s)+1 if none)
RECURSIVE TrailingRunStart(_, _)
TrailingRunStart(s, i) ==
    IF i >= 1 /\ s[i] = "\n" THEN TrailingRunStart(s, i - 1) ELSE i + 1

\* a slip: the newlines that end the text are left as they are
KeepTrailingNewlines(s) == s

\* .replace(/\n+$/, '\n'): without the m flag $ matches at the end of the
\* text only, so the one match is the run of newlines that ends the text
ReplaceTrailingNewlines(s) ==
    LET k == TrailingRunStart(s, Len(s))
    IN  IF k > Len(s) THEN s ELSE SubSeq(s, 1, k - 1) \o <<"\n">>

\* String.prototype.trim, on the white space the texts here hold
RECURSIVE TrimEnd(_)
TrimEnd(s) ==
    IF s # <<>> /\ s[Len(s)] \in {"\n", "\r", " "} THEN TrimEnd(SubSeq(s, 1, Len(s) - 1)) ELSE s

RECURSIVE TrimStart(_)
TrimStart(s) ==
    IF s # <<>> /\ s[1] \in {"\n", "\r", " "} THEN TrimStart(Tail(s)) ELSE s

Trim(s) == TrimStart(TrimEnd(s))

----------------------------------------------------------------------------
(* Paths, versions, packages, commits *)

\* args.changelogFile of a top-level call, as path components
ChangelogFile == <<"CHANGELOG.md">>

\* path.join(location, file) on normalized relative paths
PathJoin(location, file) == location \o file

PkgNameOf == <<"a", "b", "c", "d">>

\* PackageInfo of the i-th package
PackageInfo(i, unstable) ==
    [simplifiedName |-> PkgNameOf[i], location |-> <<PkgNameOf[i]>>, unstable |-> unstable]

\* the package lists handed to writeChangelogs: up to MaxPkgs packages, each
\* stable or unstable
PackageLists ==
    UNION {{[i \in 1..n |-> PackageInfo(i, flags[i])] : flags \in [1..n -> BOOLEAN]} : n \in 0..MaxPkgs}

AllPaths ==
    {ChangelogFile} \cup {PathJoin(<<PkgNameOf[i]>>, ChangelogFile) : i \in 1..MaxPkgs}

\* ConventionalCommit, by the one field filterCommits looks at
Commit(id, scope) == [id |-> id, scope |-> scope]

CommitLists ==
    { <<>>,
      <<Commit(1, "a"), Commit(2, "core"), Commit(3, "b")>> }

V120 == <<"1", ".", "2", ".", "0">>
V130 == <<"1", ".", "3", ".", "0">>
V140 == <<"1", ".", "4", ".", "0">>
A120 == <<"1", ".", "2", ".", "0", "-", "a">>
A130 == <<"1", ".", "3", ".", "0", "-", "a">>

\* Versions
Versions(stable, alpha) == [stableVersion |-> stable, alphaVersion |-> alpha]

\* ExperimentalChangesTreatment, a value outside it, and the unset field
Treatments == {"include", "strip", "separate", "bogus"}
UnsetTreatment == "<undefined>"

\* filterCommits of ../conventional-commits: keeps the commits whose scope is
\* one of includePackages (when given) and none of excludePackages
FilterCommits(commits, includePackages, excludePackages) ==
    SelectSeq(commits, LAMBDA c :
        /\ (includePackages = {} \/ c.scope \in includePackages)
        /\ (excludePackages = {} \/ c.scope \notin excludePackages))

SeqToSet(s) == {s[i] : i \in 1..Len(s)}

----------------------------------------------------------------------------
(* The file system and the I/O it sees *)

NoFile == [exists |-> FALSE, data |-> <<>>]
File(text) == [exists |-> TRUE, data |-> text]

Event(op, path) == [op |-> op, path |-> path]

\* writeFile of ../private/files: writes unless args.dryRun
WriteFile(w, args, filePath, content) ==
    IF args.dryRun
    THEN w
    ELSE [files |-> [w.files EXCEPT ![filePath] = File(content)],
          log   |-> Append(w.log, Event("write", filePath))]

\* a slip: writing the empty changelog without looking for the file
CreateChangelogAlways(w, args) ==
    WriteFile([w EXCEPT !.log = Append(@, Event("exists", args.changelogFile))],
              args, args.changelogFile, <<"\n">>)

\* createChangelogIfMissing
CreateChangelogIfMissing(w, args) ==
    LET checked == [w EXCEPT !.log = Append(@, Event("exists", args.changelogFile))]
    IN  IF ~ w.files[args.changelogFile].exists
        THEN WriteFile(checked, args, args.changelogFile, <<"\n">>)
        ELSE checked

----------------------------------------------------------------------------
(* changelog: the part that runs before its first await *)

\* a slip: the preamble is kept with the releases
OldContentWhole(raw) == raw

\* a slip: the part before the last release is kept, not the part from it on
OldContentHead(raw) ==
    LET oldContentStart == Search(raw)
    IN  IF oldContentStart # -1 THEN SubSeq(raw, 1, oldContentStart) ELSE raw

\* lines 89-92: the old content from the last release on, or all of it
OldContentOf(raw) ==
    LET oldContentStart == Search(raw)
    IN  IF oldContentStart # -1 THEN Substring(raw, oldContentStart) ELSE raw

\* the note groups and the date of a render context: each <<>> when the
\* context has none, else <<value>>
BreakingChanges == "BREAKING CHANGES"
ExperimentalBreakingChanges == "BREAKING CHANGES TO EXPERIMENTAL FEATURES"
NoteGroup(title) == [title |-> title, notes |-> <<"note of ", title>>]
NoteGroupLists ==
    { <<>>,
      <<NoteGroup(BreakingChanges)>>,
      <<NoteGroup("DEPRECATIONS"), NoteGroup(BreakingChanges)>>,
      <<NoteGroup("breaking changes"), NoteGroup("BREAKING CHANGES ")>>,
      <<NoteGroup(BreakingChanges), NoteGroup(ExperimentalBreakingChanges),
        NoteGroup(BreakingChanges)>> }
RenderDates == {<<>>, <<"2026-11-04">>}

\* lines 109-124: the context of a render, with what the renderer adds to it
\* before it calls finalizeContext
RenderContext(currentVersion, newVersion, noteGroups, date) ==
    [version     |-> newVersion,
     previousTag |-> <<"v">> \o currentVersion,
     currentTag  |-> <<"v">> \o newVersion,
     isPatch     |-> FALSE,
     noteGroups  |-> noteGroups,
     date        |-> date]

\* a slip: the date is cleared unless the option is true
FinalizeContextFalsy(args, ctx) ==
    LET retitle(g) == IF g.title = BreakingChanges
                      THEN [g EXCEPT !.title = ExperimentalBreakingChanges] ELSE g
        groups == IF ctx.noteGroups = <<>> THEN <<>>
                  ELSE <<[k \in 1..Len(ctx.noteGroups[1]) |-> retitle(ctx.noteGroups[1][k])]>>
        ctx1 == [ctx EXCEPT !.noteGroups = groups]
    IN  IF args.includeDateInChangelog # <<TRUE>> THEN [ctx1 EXCEPT !.date = <<>>] ELSE ctx1

\* lines 133-148: the finalizeContext hook
FinalizeContext(args, ctx) ==
    LET retitle(g) == IF g.title = BreakingChanges
                      THEN [g EXCEPT !.title = ExperimentalBreakingChanges] ELSE g
        groups == IF ctx.noteGroups = <<>> THEN <<>>
                  ELSE <<[k \in 1..Len(ctx.noteGroups[1]) |-> retitle(ctx.noteGroups[1][k])]>>
        ctx1 == [ctx EXCEPT !.noteGroups = groups]
    IN  IF args.includeDateInChangelog = <<FALSE>> THEN [ctx1 EXCEPT !.date = <<>>] ELSE ctx1

\* a slip: the old content is read before the file is checked and created
ChangelogBeginReadFirst(w, args, currentVersion, newVersion, commits, awaiter) ==
    LET w1  == IF args.dryRun THEN w
               ELSE [w EXCEPT !.log = Append(@, Event("read", args.changelogFile))]
        w2  == CreateChangelogIfMissing(w1, args)
        raw == IF args.dryRun THEN <<>> ELSE w2.files[args.changelogFile].data
    IN  [world |-> w2,
         call  |-> [pc             |-> "preset",
                    awaiter        |-> awaiter,
                    args           |-> args,
                    currentVersion |-> currentVersion,
                    newVersion     |-> newVersion,
                    commits        |-> commits,
                    oldContent     |-> OldContentOf(raw),
                    content        |-> <<>>,
                    value          |-> Undefined,
                    error          |-> Undefined,
                    emitted        |-> <<>>,
                    finalized      |-> <<>>,
                    before         |-> w.files[args.changelogFile],
                    after          |-> {}]]

\* a changelog invocation from its call to `await conventionalChangelogPresetLoader`.
\* emitted (the chunks the renderer has sent), before (the file as the call
\* found it) and after (the calls that had settled when this one began) are
\* history fields: no operation reads them.
ChangelogBegin(w, args, currentVersion, newVersion, commits, awaiter) ==
    LET w1  == CreateChangelogIfMissing(w, args)
        raw == IF args.dryRun THEN <<>> ELSE w1.files[args.changelogFile].data
        w2  == IF args.dryRun THEN w1
               ELSE [w1 EXCEPT !.log = Append(@, Event("read", args.changelogFile))]
    IN  [world |-> w2,
         call  |-> [pc             |-> "preset",
                    awaiter        |-> awaiter,
                    args           |-> args,
                    currentVersion |-> currentVersion,
                    newVersion     |-> newVersion,
                    commits        |-> commits,
                    oldContent     |-> OldContentOf(raw),
                    content        |-> <<>>,
                    value          |-> Undefined,
                    error          |-> Undefined,
                    emitted        |-> <<>>,
                    finalized      |-> <<>>,
                    before         |-> w.files[args.changelogFile],
                    after          |-> {}]]

\* line 163: what the 'end' handler hands to writeFile
FileText(call) ==
    ToJsString(call.args.changeLogHeader) \o <<"\n">>
        \o ReplaceTrailingNewlines(call.content \o call.oldContent)

\* a slip: resolving with what the debug line prints
ResolvedTrimmed(call) == Trim(call.content)

\* a slip: resolving with the text that goes to the file
ResolvedMerged(call) == FileText(call)

\* line 165: what the 'end' handler resolves the call with
ResolvedText(call) == call.content

\* the error a render signals
RenderError(call) == <<"render error">> \o call.args.changelogFile

\* the level-2 heading the preset's header template opens a release with
ReleaseHeading(version) == <<"#", "#", " ">> \o version \o <<"\n">>

\* the chunks a render may emit, in any number and order up to MaxChunks
Entry(version) == <<"*", " ">> \o version \o <<"\n">>
HeadingChunks(call) == {ReleaseHeading(call.newVersion)}
NarrowChunks(call) == {ReleaseHeading(call.newVersion), Entry(call.newVersion), <<"\n">>}
WideChunks(call) == {ReleaseHeading(call.newVersion), <<"y">>, <<"\n">>}

----------------------------------------------------------------------------
(* State *)

ChangelogArgs(changelogFile, dryRun, changeLogHeader) ==
    [changelogFile |-> changelogFile, dryRun |-> dryRun, changeLogHeader |-> changeLogHeader,
     includeDateInChangelog |-> <<>>]

\* an optional boolean option: <<>> when unset, else <<flag>>
OptionalFlags == {<<>>, <<TRUE>>, <<FALSE>>}

\* writeChangelogs before it is called
IdleWc ==
    [pc               |-> "idle",
     args             |-> ChangelogArgs(ChangelogFile, FALSE, Undefined),
     skip             |-> FALSE,
     treatment        |-> UnsetTreatment,
     currentVersion   |-> Versions(V120, Undefined),
     newVersion       |-> Versions(V130, Undefined),
     commits          |-> <<>>,
     packages         |-> <<>>,
     changelogResults |-> <<>>,
     error            |-> Undefined,
     unhandled        |-> <<>>]

\* the callers' changeLogHeader values: unset, or a title line
TitleHeader == <<"#", " ", "C", "\n">>
Headers == {Undefined, TitleHeader}

\* an existing changelog: a preamble, the last release, its entry
OldFile ==
    <<"#", " ", "U", "\n">> \o <<"#", "#", " ", "[">> \o V120 \o <<"]", "\n">> \o <<"x", "\n">>

TypeOK ==
    /\ DOMAIN files = AllPaths
    /\ \A p \in AllPaths : files[p].exists \in BOOLEAN
    /\ wc.pc \in {"idle", "running", "resolved", "rejected"}
    /\ \A c \in 1..Len(calls) : calls[c].pc \in {"preset", "render", "resolved", "rejected"}
    /\ \A k \in 1..Len(microtasks) : microtasks[k] \in 1..Len(calls)

\* the top-level changelog is missing or OldFile, and so are the package
\* changelogs, all alike
Init ==
    /\ \E top \in {NoFile, File(OldFile)}, pkg \in {NoFile, File(OldFile)} :
         files = [p \in AllPaths |-> IF p = ChangelogFile THEN top ELSE pkg]
    /\ calls = <<>>
    /\ wc = IdleWc
    /\ log = <<>>
    /\ microtasks = <<>>

----------------------------------------------------------------------------
(* writeChangelogs: the part that runs before its first await *)

\* a slip: the skip flag is not looked at
SkipNever(skip) == FALSE

\* line 41: args.skip?.changelog
SkipChangelog(skip) == skip

\* a slip: whatever is not 'strip' or 'separate' is taken for 'include'
TreatmentLenient(treatment) ==
    IF treatment \in {"strip", "separate"} THEN treatment ELSE "include"

\* line 45: args.experimentalChangesTreatment ?? 'include'
TreatmentOrDefault(treatment) == IF treatment = UnsetTreatment THEN "include" ELSE treatment

\* a slip: only the new version's alpha component is looked at
MissingNewAlpha(currentVersion, newVersion) == Falsy(newVersion.alphaVersion)

\* line 56
MissingAlpha(currentVersion, newVersion) ==
    Falsy(currentVersion.alphaVersion) \/ Falsy(newVersion.alphaVersion)

NoAlphaError == <<"unable to create \"separate\" changelogs without alpha package versions">>
UnsupportedError(treatment) == <<"unsupported experimentalChanges type: ", treatment>>

\* a slip: 'strip' renders the full commit list like 'include'
SingleRenderAllCommits(experimentalChangesTreatment, commits, stableCommits) == commits

\* lines 50 and 53: the commits the one render of 'include' or 'strip' is given
SingleRenderCommits(experimentalChangesTreatment, commits, stableCommits) ==
    IF experimentalChangesTreatment = "include" THEN commits ELSE stableCommits

\* a slip: the package renders are started from the last package to the first
RECURSIVE ForEachUnstableBackwards(_, _, _, _, _, _, _)
ForEachUnstableBackwards(w, cs, pkgs, args, currentVersion, newVersion, commits) ==
    IF pkgs = <<>>
    THEN [world |-> w, calls |-> cs]
    ELSE LET pkg          == pkgs[Len(pkgs)]
             pkgCommits   == FilterCommits(commits, {pkg.simplifiedName}, {})
             pkgChangelog == PathJoin(pkg.location, args.changelogFile)
             pkgArgs      == [args EXCEPT !.changelogFile = pkgChangelog]
             b == ChangelogBegin(w, pkgArgs, currentVersion.alphaVersion,
                                 newVersion.alphaVersion, pkgCommits, "pkg")
         IN  ForEachUnstableBackwards(b.world, Append(cs, b.call),
                                      SubSeq(pkgs, 1, Len(pkgs) - 1), args,
                                      currentVersion, newVersion, commits)

\* lines 62-71: the forEach callback runs for each unstable package in list
\* order, each up to the await inside its changelog call
RECURSIVE ForEachUnstable(_, _, _, _, _, _, _)
ForEachUnstable(w, cs, pkgs, args, currentVersion, newVersion, commits) ==
    IF pkgs = <<>>
    THEN [world |-> w, calls |-> cs]
    ELSE LET pkg          == Head(pkgs)
             pkgCommits   == FilterCommits(commits, {pkg.simplifiedName}, {})
             pkgChangelog == PathJoin(pkg.location, args.changelogFile)
             pkgArgs      == [args EXCEPT !.changelogFile = pkgChangelog]
             b == ChangelogBegin(w, pkgArgs, currentVersion.alphaVersion,
                                 newVersion.alphaVersion, pkgCommits, "pkg")
         IN  ForEachUnstable(b.world, Append(cs, b.call), Tail(pkgs), args,
                             currentVersion, newVersion, commits)

\* lines 41-78 up to the first await: the state writeChangelogs leaves
WriteChangelogsBegin(w, skip, treatment, args, currentVersion, newVersion, commits, packages) ==
    LET called == [IdleWc EXCEPT !.pc = "running", !.args = args, !.skip = skip,
                                 !.treatment = treatment,
                                 !.currentVersion = currentVersion,
                                 !.newVersion = newVersion,
                                 !.commits = commits, !.packages = packages]
        experimentalChangesTreatment == TreatmentOrDefault(treatment)
        unstablePackages == SelectSeq(packages, LAMBDA p : p.unstable)
        stableCommits ==
            FilterCommits(commits, {}, {p.simplifiedName : p \in SeqToSet(unstablePackages)})
        one(cs, awaiter) ==
            LET b == ChangelogBegin(w, args, currentVersion.stableVersion,
                                    newVersion.stableVersion, cs, awaiter)
            IN  [world |-> b.world, calls |-> <<b.call>>, wc |-> called]
    IN  IF SkipChangelog(skip)
        THEN [world |-> w, calls |-> <<>>, wc |-> [called EXCEPT !.pc = "resolved"]]
        ELSE IF experimentalChangesTreatment \in {"include", "strip"}
        THEN one(SingleRenderCommits(experimentalChangesTreatment, commits, stableCommits),
                 experimentalChangesTreatment)
        ELSE IF experimentalChangesTreatment = "separate"
        THEN IF MissingAlpha(currentVersion, newVersion)
             THEN [world |-> w, calls |-> <<>>,
                   wc |-> [called EXCEPT !.pc = "rejected", !.error = NoAlphaError]]
             ELSE LET each == ForEachUnstable(w, <<>>, unstablePackages, args,
                                              currentVersion, newVersion, commits)
                      b    == ChangelogBegin(each.world, args, currentVersion.stableVersion,
                                             newVersion.stableVersion, stableCommits, "stable")
                  IN  [world |-> b.world, calls |-> Append(each.calls, b.call), wc |-> called]
        ELSE [world |-> w, calls |-> <<>>,
              wc |-> [called EXCEPT !.pc = "rejected", !.error = UnsupportedError(treatment)]]

----------------------------------------------------------------------------
(* Actions *)

World == [files |-> files, log |-> log]

\* a caller invokes writeChangelogs; it runs to its first await, its return
\* or its throw
WriteChangelogsWith(args, skip, treatment, currentVersion, newVersion, commits, packages) ==
    /\ wc.pc = "idle"
    /\ calls = <<>>
    /\ LET r == WriteChangelogsBegin(World, skip, treatment, args,
                                     currentVersion, newVersion, commits, packages)
       IN  /\ files' = r.world.files
           /\ log' = r.world.log
           /\ calls' = r.calls
           /\ wc' = r.wc
    /\ UNCHANGED microtasks

WriteChangelogs(skip, treatment, dryRun, header, currentVersion, newVersion, commits, packages) ==
    WriteChangelogsWith(ChangelogArgs(ChangelogFile, dryRun, header), skip, treatment,
                        currentVersion, newVersion, commits, packages)

Settled == {c \in 1..Len(calls) : calls[c].pc \in {"resolved", "rejected"}}

\* a caller invokes changelog itself, on the top-level file; at most max such calls
CallChangelog(max, dryRun, header, currentVersion, newVersion, commits) ==
    /\ wc.pc = "idle"
    /\ Len(calls) < max
    /\ microtasks = <<>>
    /\ LET b == ChangelogBegin(World, ChangelogArgs(ChangelogFile, dryRun, header),
                               currentVersion, newVersion, commits, "direct")
       IN  /\ files' = b.world.files
           /\ log' = b.world.log
           /\ calls' = Append(calls, [b.call EXCEPT !.after = Settled])
    /\ UNCHANGED <<wc, microtasks>>

\* lines 95-150: the preset is loaded; the call pipes its commits into the renderer
PresetLoaded(c) ==
    /\ microtasks = <<>>
    /\ calls[c].pc = "preset"
    /\ calls' = [calls EXCEPT ![c].pc = "render"]
    /\ UNCHANGED <<files, wc, log, microtasks>>

\* lines 126-149: the renderer of call c calls the finalizeContext hook it was
\* given, once, before it emits the text it renders from the context
Finalize(c, noteGroups, date) ==
    /\ microtasks = <<>>
    /\ calls[c].pc = "render"
    /\ calls[c].emitted = <<>>
    /\ calls[c].finalized = <<>>
    /\ LET ctx == RenderContext(calls[c].currentVersion, calls[c].newVersion, noteGroups, date)
       IN  calls' = [calls EXCEPT ![c].finalized =
                        <<[given |-> ctx, result |-> FinalizeContext(calls[c].args, ctx)]>>]
    /\ UNCHANGED <<files, wc, log, microtasks>>

\* lines 155-157: the 'data' handler
Data(c, chunk) ==
    /\ microtasks = <<>>
    /\ calls[c].pc = "render"
    /\ Len(calls[c].emitted) < MaxChunks
    /\ calls' = [calls EXCEPT ![c].content = @ \o chunk,
                              ![c].emitted = Append(@, chunk)]
    /\ UNCHANGED <<files, wc, log, microtasks>>

\* whoever awaits call c resumes in a microtask once c settles
Settle(c) ==
    IF calls[c].awaiter = "direct" THEN microtasks ELSE Append(microtasks, c)

\* a slip: the 'end' handler writes the file and forgets to resolve
EndWithoutResolve(c) ==
    /\ microtasks = <<>>
    /\ calls[c].pc = "render"
    /\ LET call == calls[c]
           w == IF call.args.dryRun THEN World
                ELSE WriteFile(World, call.args, call.args.changelogFile, FileText(call))
       IN  /\ files' = w.files
           /\ log' = w.log
    /\ UNCHANGED <<calls, wc, microtasks>>

\* lines 158-166: the 'end' handler
End(c) ==
    /\ microtasks = <<>>
    /\ calls[c].pc = "render"
    /\ LET call == calls[c]
           w == IF call.args.dryRun THEN World
                ELSE WriteFile(World, call.args, call.args.changelogFile, FileText(call))
       IN  /\ files' = w.files
           /\ log' = w.log
           /\ calls' = [calls EXCEPT ![c].pc = "resolved", ![c].value = ResolvedText(call)]
    /\ microtasks' = Settle(c)
    /\ UNCHANGED wc

\* lines 151-153: the 'error' handler
Error(c) ==
    /\ microtasks = <<>>
    /\ calls[c].pc = "render"
    /\ calls' = [calls EXCEPT ![c].pc = "rejected", ![c].error = RenderError(calls[c])]
    /\ microtasks' = Settle(c)
    /\ UNCHANGED <<files, wc, log>>

\* the ChangelogResult writeChangelogs makes of a settled call
ChangelogResult(call) ==
    [filePath |-> call.args.changelogFile, fileContents |-> call.value]

\* lines 50-51, 53-54, 69-70, 73-75: the code after `await changelog(...)`.
\* The forEach callback's promise is dropped, so a rejection of a package call
\* reaches nobody (unhandled); the other awaits pass it on to the caller.
\* changelogResults is the array the caller is handed: a push after the
\* return shows in it.
Resume ==
    /\ microtasks # <<>>
    /\ LET call == calls[Head(microtasks)]
       IN  wc' =
             IF call.awaiter = "pkg"
             THEN IF call.pc = "resolved"
                  THEN [wc EXCEPT !.changelogResults = Append(@, ChangelogResult(call))]
                  ELSE [wc EXCEPT !.unhandled = Append(@, call.error)]
             ELSE IF call.pc = "resolved"
                  THEN [wc EXCEPT !.pc = "resolved",
                                  !.changelogResults = Append(@, ChangelogResult(call))]
                  ELSE [wc EXCEPT !.pc = "rejected", !.error = call.error]
    /\ microtasks' = Tail(microtasks)
    /\ UNCHANGED <<files, calls, log>>

VersionPairs ==
    {Versions(V120, a) : a \in {Undefined, A120}} \X {Versions(V130, a) : a \in {Undefined, A130}}

Next ==
    \/ /\ wc.pc = "idle"
       /\ \E skip \in BOOLEAN, treatment \in Treatments \cup {UnsetTreatment},
             dryRun \in BOOLEAN, v \in VersionPairs,
             commits \in CommitLists \ {<<>>}, packages \in PackageLists :
               WriteChangelogs(skip, treatment, dryRun, TitleHeader, v[1], v[2], commits, packages)
    \/ \E c \in 1..Len(calls) : PresetLoaded(c)
    \/ \E c \in 1..Len(calls) : \E chunk \in HeadingChunks(calls[c]) : Data(c, chunk)
    \/ \E c \in 1..Len(calls) : End(c)
    \/ \E c \in 1..Len(calls) : Error(c)
    \/ Resume

Spec == Init /\ [][Next]_vars

----------------------------------------------------------------------------
(* One changelog call on any changelog file *)

\* what a changelog file is made of: a title without a version, a release
\* heading, text that ends no line, a blank line, an anchor, a heading whose
\* version lacks its patch number
Segments ==
    { <<"#", " ", "U", "\n">>,
      <<"#", "#", " ", "[">> \o V120 \o <<"]", "\n">>,
      <<"x">>,
      <<"\n">>,
      AnchorTag,
      <<"#", " ", "1", ".", "2", "\n">> }

\* the texts of up to n segments
RECURSIVE TextsOf(_)
TextsOf(n) ==
    IF n = 0 THEN {<<>>}
    ELSE LET shorter == TextsOf(n - 1)
         IN  shorter \cup {t \o seg : t \in shorter, seg \in Segments}

TopLevelOnly(top) == [p \in AllPaths |-> IF p = ChangelogFile THEN top ELSE NoFile]

InitCall ==
    /\ \E top \in {NoFile} \cup {File(t) : t \in TextsOf(MaxSegs)} : files = TopLevelOnly(top)
    /\ calls = <<>>
    /\ wc = IdleWc
    /\ log = <<>>
    /\ microtasks = <<>>

NextCall ==
    \/ /\ calls = <<>>
       /\ \E dryRun \in BOOLEAN, header \in Headers, commits \in CommitLists :
            CallChangelog(1, dryRun, header, V120, V130, commits)
    \/ \E c \in 1..Len(calls) : PresetLoaded(c)
    \/ \E c \in 1..Len(calls) : \E chunk \in WideChunks(calls[c]) : Data(c, chunk)
    \/ \E c \in 1..Len(calls) : End(c)
    \/ \E c \in 1..Len(calls) : Error(c)

SpecCall == InitCall /\ [][NextCall]_vars

----------------------------------------------------------------------------
(* writeChangelogs with the includeDateInChangelog option, the renderers
   calling the finalizeContext hook *)

InitHook ==
    /\ files = [p \in AllPaths |-> NoFile]
    /\ calls = <<>>
    /\ wc = IdleWc
    /\ log = <<>>
    /\ microtasks = <<>>

HookPackageLists ==
    {<<>>, <<PackageInfo(1, TRUE)>>, <<PackageInfo(1, TRUE), PackageInfo(2, FALSE)>>}

NextHook ==
    \/ /\ wc.pc = "idle"
       /\ \E treatment \in Treatments \cup {UnsetTreatment}, includeDate \in OptionalFlags,
             packages \in HookPackageLists :
               WriteChangelogsWith(
                   [ChangelogArgs(ChangelogFile, FALSE, TitleHeader)
                       EXCEPT !.includeDateInChangelog = includeDate],
                   FALSE, treatment, Versions(V120, A120), Versions(V130, A130),
                   <<Commit(1, "a"), Commit(2, "core")>>, packages)
    \/ \E c \in 1..Len(calls) : PresetLoaded(c)
    \/ \E c \in 1..Len(calls) : \E noteGroups \in {<<>>} \cup {<<g>> : g \in NoteGroupLists},
                                    date \in RenderDates : Finalize(c, noteGroups, date)
    \/ \E c \in 1..Len(calls) : \E chunk \in HeadingChunks(calls[c]) : Data(c, chunk)
    \/ \E c \in 1..Len(calls) : End(c)
    \/ \E c \in 1..Len(calls) : Error(c)
    \/ Resume

SpecHook == InitHook /\ [][NextHook]_vars

----------------------------------------------------------------------------
(* One changelog call whose preset loads and whose renderer signals in the end *)

\* the renderer of some call signals 'end' or 'error'
RendererSignals == \E c \in 1..Len(calls) : End(c) \/ Error(c)

InitLive ==
    /\ \E top \in {NoFile, File(OldFile), File(<<"x", "\n">>)} : files = TopLevelOnly(top)
    /\ calls = <<>>
    /\ wc = IdleWc
    /\ log = <<>>
    /\ microtasks = <<>>

SpecLive ==
    /\ InitLive
    /\ [][NextCall]_vars
    /\ WF_vars(\E c \in 1..Len(calls) : PresetLoaded(c))
    /\ WF_vars(RendererSignals)

----------------------------------------------------------------------------
(* Two changelog calls on the same file, started at any two moments *)

InitPair ==
    /\ \E top \in {NoFile, File(OldFile), File(<<"x", "\n">>)} : files = TopLevelOnly(top)
    /\ calls = <<>>
    /\ wc = IdleWc
    /\ log = <<>>
    /\ microtasks = <<>>

NextPair ==
    \/ /\ Len(calls) < 2
       /\ \E dryRun \in BOOLEAN, v \in {<<V120, V130>>, <<V130, V140>>} :
            CallChangelog(2, dryRun, TitleHeader, v[1], v[2], <<>>)
    \/ \E c \in 1..Len(calls) : PresetLoaded(c)
    \/ \E c \in 1..Len(calls) : \E chunk \in NarrowChunks(calls[c]) : Data(c, chunk)
    \/ \E c \in 1..Len(calls) : End(c)
    \/ \E c \in 1..Len(calls) : Error(c)

SpecPair == InitPair /\ [][NextPair]_vars

----------------------------------------------------------------------------
(* Releases made one after another on the same file: each changelog call is
   not dry, succeeds, and has settled before the next one begins *)

\* the version of the k-th release: 1.2.0, 1.3.0, ...
Minors == <<"2", "3", "4", "5", "6", "7", "8", "9">>
SeriesVersion(k) == <<"1", ".", Minors[k], ".", "0">>

\* what the renderers of the series emit
SeriesChunks(call) == {ReleaseHeading(call.newVersion), <<"\n">>}

NextSeries ==
    \/ /\ Len(calls) < MaxSeries
       /\ Len(calls) + 1 < Len(Minors)
       /\ Settled = 1..Len(calls)
       /\ \E header \in IF calls = <<>> THEN Headers ELSE {calls[1].args.changeLogHeader} :
            CallChangelog(MaxSeries, FALSE, header,
                          SeriesVersion(Len(calls) + 1), SeriesVersion(Len(calls) + 2), <<>>)
    \/ \E c \in 1..Len(calls) : PresetLoaded(c)
    \/ \E c \in 1..Len(calls) : \E chunk \in SeriesChunks(calls[c]) : Data(c, chunk)
    \/ \E c \in 1..Len(calls) : End(c)

SpecSeries == InitPair /\ [][NextSeries]_vars

----------------------------------------------------------------------------
(* What the claims speak of *)

\* the text a renderer has emitted: its chunks, in emission order
RECURSIVE Flatten(_)
Flatten(chunks) == IF chunks = <<>> THEN <<>> ELSE Head(chunks) \o Flatten(Tail(chunks))

Rendered(call) == Flatten(call.emitted)

EndsWithNewline(s) == s # <<>> /\ s[Len(s)] = "\n"

\* s without the newlines that end it
RECURSIVE WithoutTrailingNewlines(_)
WithoutTrailingNewlines(s) ==
    IF EndsWithNewline(s) THEN WithoutTrailingNewlines(SubSeq(s, 1, Len(s) - 1)) ELSE s

\* s ends with one newline and no more
OneTrailingNewline(s) ==
    EndsWithNewline(s) /\ ~ EndsWithNewline(SubSeq(s, 1, Len(s) - 1))

\* s with the newlines that end it, if any, made one
Normalized(s) ==
    IF EndsWithNewline(s) THEN WithoutTrailingNewlines(s) \o <<"\n">> ELSE s

\* t occurs in s
Contains(s, t) ==
    \E i \in 0..(Len(s) - Len(t)) : SubSeq(s, i + 1, i + Len(t)) = t

\* the split points of d, and the part of d a changelog call is to preserve
SplitPoints(d) == {i \in 1..Len(d) : START_OF_LAST_RELEASE_PATTERN(d, i)}
Preserved(d) ==
    IF SplitPoints(d) = {} THEN d ELSE SubSeq(d, Min(SplitPoints(d)), Len(d))

TargetFile(call) == files[call.args.changelogFile]
Succeeded(call) == call.pc = "resolved" /\ ~ call.args.dryRun
CallSet == {calls[c] : c \in 1..Len(calls)}

\* the text the call found in its file once createChangelogIfMissing had run
FoundText(call) == IF call.before.exists THEN call.before.data ELSE <<"\n">>

----------------------------------------------------------------------------
(* C1 *)

\* C1: a changelog call with dryRun = true leaves its target file as it found
\* it (missing, or present with the same contents) in every state of the call,
\* writes nothing, and resolves with exactly the text the renderer emitted.
C1_DryRunTouchesNothing ==
    \A call \in CallSet :
        call.args.dryRun =>
            /\ TargetFile(call) = call.before
            /\ \A k \in 1..Len(log) : log[k].op # "write"
            /\ call.pc = "resolved" => call.value = Rendered(call)

C1_Witness ==
    \E call \in CallSet :
        /\ call.args.dryRun
        /\ call.pc = "resolved"
        /\ ~ call.before.exists
        /\ Len(call.emitted) >= 2
        /\ EndsWithNewline(Rendered(call))

----------------------------------------------------------------------------
(* C2 *)

\* C2 as stated: once a call is rejected, its target file exists and reads as
\* it did before the call started, also when it was missing.
C2_RejectedLeavesFileAsFound ==
    \A call \in CallSet :
        call.pc = "rejected" => TargetFile(call) = call.before

\* C2, amended: a rejected call carries the renderer's error and has written no
\* rendered text. A file that existed is as it was; a file that was missing
\* is still missing after a dry run, and otherwise has been created holding a
\* single newline.
C2_RejectedWritesNoRenderedText ==
    \A call \in CallSet :
        call.pc = "rejected" =>
            /\ call.error = RenderError(call)
            /\ call.value = Undefined
            /\ call.before.exists => TargetFile(call) = call.before
            /\ (~ call.before.exists /\ call.args.dryRun) => TargetFile(call) = NoFile
            /\ (~ call.before.exists /\ ~ call.args.dryRun) => TargetFile(call) = File(<<"\n">>)

C2_Witness ==
    \E call \in CallSet :
        /\ call.pc = "rejected"
        /\ ~ call.args.dryRun
        /\ ~ call.before.exists
        /\ call.emitted # <<>>

----------------------------------------------------------------------------
(* C3, C4 *)

\* writeChangelogs took the 'separate' branch past its alpha version check
SeparateStarted ==
    /\ wc.pc # "idle"
    /\ ~ wc.skip
    /\ wc.treatment = "separate"
    /\ wc.currentVersion.alphaVersion # Undefined
    /\ wc.newVersion.alphaVersion # Undefined

UnstablePackages == {p \in SeqToSet(wc.packages) : p.unstable}

\* the places of the results for filePath in the array the caller is handed
ResultsFor(filePath) ==
    {k \in 1..Len(wc.changelogResults) : wc.changelogResults[k].filePath = filePath}

\* the text the renderer emitted for the call on filePath
RenderedFor(filePath) ==
    {Rendered(call) : call \in {x \in CallSet : x.args.changelogFile = filePath}}

\* C3: in 'separate' treatment with both alpha versions defined, the sequence
\* a resolved writeChangelogs has returned holds exactly one result for every
\* unstable package, at <location>/<changelogFile> with that package's
\* rendered text, and exactly one for the stable changelog at changelogFile.
C3_SeparateReturnsAllResults ==
    (SeparateStarted /\ wc.pc = "resolved") =>
        /\ Len(wc.changelogResults) = Cardinality(UnstablePackages) + 1
        /\ Cardinality(ResultsFor(wc.args.changelogFile)) = 1
        /\ \A p \in UnstablePackages :
             LET filePath == PathJoin(p.location, wc.args.changelogFile)
             IN  /\ Cardinality(ResultsFor(filePath)) = 1
                 /\ \A k \in ResultsFor(filePath) :
                      wc.changelogResults[k].fileContents \in RenderedFor(filePath)

\* C4: in 'separate' treatment the stable changelog's result is the last one
\* of the result sequence in every state: no package result comes after it.
C4_StableResultIsLast ==
    SeparateStarted =>
        \A k \in ResultsFor(wc.args.changelogFile) : k = Len(wc.changelogResults)

----------------------------------------------------------------------------
(* C7, C8 *)

\* nothing was checked, created, read or written, and no render was started
NothingTouched ==
    /\ log = <<>>
    /\ calls = <<>>
    /\ \A p \in AllPaths : files[p] \in {NoFile, File(OldFile)}

\* C7: in 'separate' treatment, an undefined current or new alpha version makes
\* writeChangelogs fail with its 'without alpha package versions' error with
\* no file touched and no render started; a package changelog call exists
\* only when both alpha versions are defined.
C7_SeparateNeedsAlphaVersions ==
    /\ ( /\ wc.pc # "idle"
         /\ ~ wc.skip
         /\ wc.treatment = "separate"
         /\ (wc.currentVersion.alphaVersion = Undefined \/ wc.newVersion.alphaVersion = Undefined) )
       => (wc.pc = "rejected" /\ wc.error = NoAlphaError /\ NothingTouched)
    /\ \A call \in CallSet :
         call.awaiter = "pkg" =>
            /\ wc.currentVersion.alphaVersion # Undefined
            /\ wc.newVersion.alphaVersion # Undefined

C7_Witness ==
    /\ wc.pc = "rejected"
    /\ wc.error = NoAlphaError
    /\ wc.treatment = "separate"
    /\ wc.currentVersion.alphaVersion = Undefined
    /\ wc.newVersion.alphaVersion # Undefined
    /\ UnstablePackages # {}
    /\ ~ wc.args.dryRun
    /\ ~ files[ChangelogFile].exists

\* C8: with skip.changelog set, writeChangelogs returns an empty sequence, no
\* file is checked, created, read or written and no render is started,
\* whatever the treatment, the versions, the commits and the packages.
C8_SkipDoesNothing ==
    (wc.pc # "idle" /\ wc.skip) =>
        (wc.pc = "resolved" /\ wc.changelogResults = <<>> /\ wc.error = Undefined /\ NothingTouched)

C8_Witness ==
    /\ wc.skip
    /\ wc.pc = "resolved"
    /\ wc.treatment = "bogus"
    /\ wc.newVersion.alphaVersion = Undefined
    /\ UnstablePackages # {}
    /\ wc.commits # <<>>
    /\ ~ wc.args.dryRun
    /\ ~ files[ChangelogFile].exists

----------------------------------------------------------------------------
(* C9 *)

\* writeChangelogs and every render it started have settled, and all the
\* code awaiting them has run
Quiescent ==
    /\ wc.pc \in {"resolved", "rejected"}
    /\ microtasks = <<>>
    /\ \A c \in 1..Len(calls) : calls[c].pc \in {"resolved", "rejected"}

\* C9: when all is settled, a render of writeChangelogs that signalled an
\* error has made writeChangelogs reject, with that error (or, when several
\* renders failed, with the error of one of them).
C9_RenderErrorRejectsCaller ==
    Quiescent =>
        \A c \in 1..Len(calls) :
            (calls[c].awaiter # "direct" /\ calls[c].pc = "rejected") =>
                /\ wc.pc = "rejected"
                /\ \E d \in 1..Len(calls) :
                     calls[d].pc = "rejected" /\ wc.error = calls[d].error

----------------------------------------------------------------------------
(* C5, C6 *)

\* C5 as stated: after a successful non-dry-run call on an existing file, the
\* file holds the header line, the rendered text, and right after it the old
\* file from its first split point on (all of it when it has none), byte for
\* byte.
C5_PreservedByteForByte ==
    \A call \in CallSet :
        (Succeeded(call) /\ call.before.exists) =>
            TargetFile(call).data =
                ToJsString(call.args.changeLogHeader) \o <<"\n">>
                    \o Rendered(call) \o Preserved(call.before.data)

\* C5, amended: the same, except that the newlines that end the rendered text
\* followed by the preserved old content are written as a single newline.
C5_PreservedUpToTrailingNewlines ==
    \A call \in CallSet :
        (Succeeded(call) /\ call.before.exists) =>
            TargetFile(call).data =
                ToJsString(call.args.changeLogHeader) \o <<"\n">>
                    \o Normalized(Rendered(call) \o Preserved(call.before.data))

C5_Witness ==
    \E call \in CallSet :
        /\ Succeeded(call)
        /\ call.before.exists
        /\ SplitPoints(call.before.data) # {}
        /\ Min(SplitPoints(call.before.data)) > 1
        /\ Cardinality(SplitPoints(call.before.data)) > 1
        /\ call.emitted # <<>>

\* C6 as stated: every file a successful non-dry-run call has written ends
\* with exactly one newline.
C6_OneTrailingNewline ==
    \A call \in CallSet :
        Succeeded(call) => OneTrailingNewline(TargetFile(call).data)

\* C6, amended: the file is the header, a newline, and the rendered text
\* followed by the old content with the newlines that end it, if any, made
\* one; so it ends with exactly one newline when that text ends with a
\* newline and is not made of newlines alone, and making the newlines one a
\* second time changes nothing.
C6_TrailingNewlinesMadeOne ==
    \A call \in CallSet :
        Succeeded(call) =>
            LET merged == Rendered(call) \o call.oldContent
                body   == TargetFile(call).data
            IN  /\ body = ToJsString(call.args.changeLogHeader) \o <<"\n">> \o Normalized(merged)
                /\ (EndsWithNewline(merged) /\ WithoutTrailingNewlines(merged) # <<>>)
                     => OneTrailingNewline(body)
                /\ ReplaceTrailingNewlines(Normalized(merged)) = Normalized(merged)

C6_Witness ==
    \E call \in CallSet :
        /\ Succeeded(call)
        /\ WithoutTrailingNewlines(Rendered(call) \o call.oldContent) # <<>>
        /\ Len(Rendered(call) \o call.oldContent)
             >= Len(WithoutTrailingNewlines(Rendered(call) \o call.oldContent)) + 2
        /\ call.emitted # <<>>
        /\ call.oldContent # <<>>

----------------------------------------------------------------------------
(* C10 *)

\* call i had settled when call j began
Serial(i, j) == i \in calls[j].after

\* calls i and j both read the file before either wrote it
Overlapped(i, j) == ~ Serial(i, j) /\ ~ Serial(j, i)

\* two successful non-dry-run calls; in SpecPair both are on the same file
BothSucceeded(i, j) == i # j /\ Succeeded(calls[i]) /\ Succeeded(calls[j])

BeginsWithRelease(text) == text # <<>> /\ START_OF_LAST_RELEASE_PATTERN(text, 1)

\* the file a call writes from the text it found, had no other call written
WrittenAlone(call) ==
    ToJsString(call.args.changeLogHeader) \o <<"\n">>
        \o Normalized(Rendered(call) \o Preserved(FoundText(call)))

\* C10 as stated, its first half: when one call has completed before the
\* other starts, the file holds the text rendered by both (read in the
\* claim's favour: the newlines that end a text are not asked for).
C10_SerializedKeepsBothTexts ==
    \A i, j \in 1..Len(calls) :
        (BothSucceeded(i, j) /\ Serial(i, j)) =>
            /\ Contains(files[ChangelogFile].data, WithoutTrailingNewlines(Rendered(calls[i])))
            /\ Contains(files[ChangelogFile].data, WithoutTrailingNewlines(Rendered(calls[j])))

\* C10, amended: when one call has completed before the other starts and the
\* earlier call's rendered text begins with a release heading, the file holds
\* the text rendered by both, up to the newlines that end each; when the calls
\* overlap, the file is what one of them writes from the content it read
\* before the other wrote, so the other's text can be missing from it.
C10_SerializedKeepsReleases ==
    \A i, j \in 1..Len(calls) :
        BothSucceeded(i, j) =>
            /\ (Serial(i, j) /\ BeginsWithRelease(Rendered(calls[i]))) =>
                  /\ Contains(files[ChangelogFile].data,
                              WithoutTrailingNewlines(Rendered(calls[i])))
                  /\ Contains(files[ChangelogFile].data,
                              WithoutTrailingNewlines(Rendered(calls[j])))
            /\ Overlapped(i, j) =>
                  files[ChangelogFile].data \in {WrittenAlone(calls[i]), WrittenAlone(calls[j])}

\* overlapping calls, each rendering a release, and the file lacks one of them
C10_Witness ==
    \E i, j \in 1..Len(calls) :
        /\ BothSucceeded(i, j)
        /\ Overlapped(i, j)
        /\ BeginsWithRelease(Rendered(calls[i]))
        /\ BeginsWithRelease(Rendered(calls[j]))
        /\ ~ Contains(files[ChangelogFile].data, WithoutTrailingNewlines(Rendered(calls[i])))
        /\ Contains(files[ChangelogFile].data, WithoutTrailingNewlines(Rendered(calls[j])))

----------------------------------------------------------------------------
(* C11, C12 *)

\* writeChangelogs was called without the skip flag, with this treatment
Started(treatments) == wc.pc # "idle" /\ ~ wc.skip /\ wc.treatment \in treatments

\* the names of the packages flagged unstable
UnstableNames == {p.simplifiedName : p \in UnstablePackages}

\* the commits of the list that belong to no unstable package, in list order
StableCommitsOf(commits) == SelectSeq(commits, LAMBDA c : c.scope \notin UnstableNames)

\* no package changelog was checked, created, read or written
PackageFilesUntouched ==
    /\ \A k \in 1..Len(log) : log[k].path = ChangelogFile
    /\ \A p \in AllPaths \ {ChangelogFile} : files[p] \in {NoFile, File(OldFile)}

\* the one render started, on the top-level file with the stable version pair
OneStableRender(commits) ==
    /\ Len(calls) = 1
    /\ calls[1].args.changelogFile = wc.args.changelogFile
    /\ calls[1].currentVersion = wc.currentVersion.stableVersion
    /\ calls[1].newVersion = wc.newVersion.stableVersion
    /\ calls[1].commits = commits
    /\ wc.pc = "resolved" =>
          wc.changelogResults =
              <<[filePath |-> wc.args.changelogFile, fileContents |-> Rendered(calls[1])]>>
    /\ PackageFilesUntouched

\* C11: 'include' (and an unset treatment) starts exactly one render, over the
\* full commit list with the stable version pair; 'strip' starts exactly one
\* render, over the commits of no unstable package with the stable version
\* pair; each returns exactly one result, at changelogFile, and touches no
\* package changelog.
C11_IncludeAndStripRenderOnce ==
    /\ Started({"include", UnsetTreatment}) => OneStableRender(wc.commits)
    /\ Started({"strip"}) => OneStableRender(StableCommitsOf(wc.commits))

C11_Witness ==
    /\ Started({"strip"})
    /\ wc.pc = "resolved"
    /\ ~ wc.args.dryRun
    /\ Len(wc.changelogResults) = 1
    /\ wc.changelogResults[1].fileContents # <<>>
    /\ Len(calls[1].commits) = 1
    /\ Len(wc.commits) = 3
    /\ Cardinality(UnstablePackages) = 2

\* C12: a treatment other than include, strip and separate (skip not set)
\* makes writeChangelogs fail with an error that names the value, with no
\* render started and no file checked, created, read or written.
C12_UnsupportedTreatmentFails ==
    Started(Treatments \ {"include", "strip", "separate"}) =>
        /\ wc.pc = "rejected"
        /\ wc.error = <<"unsupported experimentalChanges type: ", wc.treatment>>
        /\ NothingTouched

C12_Witness ==
    /\ Started({"bogus"})
    /\ wc.pc = "rejected"
    /\ wc.error[2] = "bogus"
    /\ UnstablePackages # {}
    /\ wc.commits # <<>>
    /\ ~ wc.args.dryRun
    /\ ~ files[ChangelogFile].exists

----------------------------------------------------------------------------
(* C13 *)

\* C13: a changelog call that succeeds, in a dry run or not, resolves with
\* exactly the chunks the renderer emitted, concatenated in emission order:
\* not the text written to the file, so without the header, without the old
\* content and with its trailing newlines as emitted.
C13_ResolvesWithRenderedText ==
    \A call \in CallSet : call.pc = "resolved" =>
        /\ call.value = Rendered(call)
        /\ ~ call.args.dryRun =>
              /\ TargetFile(call).data = FileText(call)
              /\ call.value # TargetFile(call).data

C13_Witness ==
    \E call \in CallSet :
        /\ Succeeded(call)
        /\ Len(call.emitted) = 2
        /\ call.emitted[1] # call.emitted[2]
        /\ call.emitted[2] = <<"\n">>
        /\ call.oldContent = <<"\n">>
        /\ call.value = call.emitted[1] \o call.emitted[2]
        /\ ReplaceTrailingNewlines(call.value \o call.oldContent) # call.value \o call.oldContent

----------------------------------------------------------------------------
(* C14 *)

Pending(call) == call.pc \in {"preset", "render"}

\* the target file of a call that has not written its merged text
NotYetWritten(call) ==
    TargetFile(call) = IF call.args.dryRun THEN call.before ELSE File(FoundText(call))

\* C14: a changelog call whose renderer eventually signals 'end' or 'error'
\* eventually settles, and with one outcome: resolved or rejected, which then
\* stays. Until the renderer signals, the call is unsettled and its file is
\* not written: nothing else (no timeout, no cancellation) settles it.
C14_SettlesOnceOnSignal ==
    /\ [](\A call \in CallSet :
            /\ Pending(call) =>
                  /\ call.value = Undefined
                  /\ call.error = Undefined
                  /\ NotYetWritten(call)
            /\ call.pc = "resolved" => call.value = Rendered(call) /\ call.error = Undefined
            /\ call.pc = "rejected" => call.error = RenderError(call) /\ call.value = Undefined)
    /\ [][\A c \in 1..Len(calls) :
            /\ ~ Pending(calls[c]) => calls'[c] = calls[c]
            /\ calls'[c].pc # calls[c].pc /\ ~ Pending(calls'[c]) => calls[c].pc = "render"]_vars
    /\ (calls # <<>>) ~> (\A call \in CallSet : ~ Pending(call))

C14_Witness ==
    \E call \in CallSet :
        /\ call.pc = "resolved"
        /\ ~ call.args.dryRun
        /\ ~ call.before.exists
        /\ Len(call.emitted) = 2
        /\ TargetFile(call).data = FileText(call)

----------------------------------------------------------------------------
(* C15 *)

\* what the claim says of the hook's result for a context
FinalizedAsClaimed(args, given, result) ==
    /\ [result EXCEPT !.noteGroups = <<>>, !.date = <<>>]
          = [given EXCEPT !.noteGroups = <<>>, !.date = <<>>]
    /\ given.noteGroups = <<>> => result.noteGroups = <<>>
    /\ given.noteGroups # <<>> =>
          /\ result.noteGroups # <<>>
          /\ Len(result.noteGroups[1]) = Len(given.noteGroups[1])
          /\ \A k \in 1..Len(given.noteGroups[1]) :
                LET g == given.noteGroups[1][k]
                    r == result.noteGroups[1][k]
                IN  /\ r.notes = g.notes
                    /\ r.title = IF g.title = "BREAKING CHANGES"
                                 THEN "BREAKING CHANGES TO EXPERIMENTAL FEATURES"
                                 ELSE g.title
    /\ result.date = IF args.includeDateInChangelog = <<FALSE>> THEN <<>> ELSE given.date

\* C15: the finalize hook retitles every note group titled exactly
\* 'BREAKING CHANGES' to 'BREAKING CHANGES TO EXPERIMENTAL FEATURES', leaves
\* every other note group and field as it is, and clears the date exactly when
\* includeDateInChangelog is false; every render, whatever the treatment and
\* also the one of the stable changelog, has the hook to call.
C15_FinalizeHook ==
    \A c \in 1..Len(calls) :
        /\ calls[c].finalized # <<>> =>
              FinalizedAsClaimed(calls[c].args, calls[c].finalized[1].given,
                                 calls[c].finalized[1].result)
        /\ (microtasks = <<>> /\ calls[c].pc = "render" /\ calls[c].emitted = <<>>
               /\ calls[c].finalized = <<>>) =>
              \A date \in RenderDates : ENABLED Finalize(c, <<>>, date)

C15_Witness ==
    \E c \in 1..Len(calls) :
        /\ calls[c].awaiter = "stable"
        /\ calls[c].args.includeDateInChangelog = <<FALSE>>
        /\ calls[c].finalized # <<>>
        /\ calls[c].finalized[1].given.date # <<>>
        /\ calls[c].finalized[1].result.date = <<>>
        /\ calls[c].finalized[1].given.noteGroups # <<>>
        /\ Len(calls[c].finalized[1].given.noteGroups[1]) = 3
        /\ calls[c].finalized[1].result.noteGroups[1][3].title
              = "BREAKING CHANGES TO EXPERIMENTAL FEATURES"
        /\ calls[c].pc = "resolved"

----------------------------------------------------------------------------
(* C16 *)

\* what was done to the file at path, in the order it was done
OpsOn(path) ==
    LET events == SelectSeq(log, LAMBDA e : e.path = path)
    IN  [k \in 1..Len(events) |-> events[k].op]

\* the steps a non-dry-run call takes on its file before it awaits the preset
StepsBeforeRender(call) ==
    <<"exists">> \o (IF call.before.exists THEN <<>> ELSE <<"write">>) \o <<"read">>

\* C16: a non-dry-run changelog call checks that its file exists (creating it
\* with a single newline when it is missing), then reads it and keeps it from
\* its split point on, then loads the preset, then renders; the file is
\* written only at the renderer's 'end', from all the chunks emitted, and the
\* call resolves only with that write done. So writeChangelogs holds a result
\* only of a render that has completed.
C16_StepsInOrder ==
    /\ \A call \in CallSet : ~ call.args.dryRun =>
          /\ call.oldContent = Preserved(FoundText(call))
          /\ call.pc = "preset" => call.emitted = <<>>
          /\ call.pc # "resolved" =>
                /\ OpsOn(call.args.changelogFile) = StepsBeforeRender(call)
                /\ TargetFile(call) = File(FoundText(call))
                /\ call.value = Undefined
          /\ call.pc = "resolved" =>
                /\ OpsOn(call.args.changelogFile) = StepsBeforeRender(call) \o <<"write">>
                /\ TargetFile(call) =
                      File(ToJsString(call.args.changeLogHeader) \o <<"\n">>
                              \o Normalized(Rendered(call) \o call.oldContent))
                /\ call.value = Rendered(call)
    /\ \A k \in 1..Len(wc.changelogResults) :
          \E call \in CallSet :
              /\ call.pc = "resolved"
              /\ wc.changelogResults[k] =
                    [filePath |-> call.args.changelogFile, fileContents |-> Rendered(call)]

C16_Witness ==
    \E call \in CallSet :
        /\ call.awaiter = "pkg"
        /\ Succeeded(call)
        /\ ~ call.before.exists
        /\ call.emitted # <<>>
        /\ OpsOn(call.args.changelogFile) = <<"exists", "write", "read", "write">>
        /\ \E k \in 1..Len(wc.changelogResults) :
              wc.changelogResults[k].filePath = call.args.changelogFile

----------------------------------------------------------------------------
(* C17 *)

\* the calls of a series that have written: the first n
Written == Cardinality({c \in 1..Len(calls) : Succeeded(calls[c])})

\* the rendered texts of the first n calls, the newest first
RECURSIVE NewestFirst(_)
NewestFirst(n) == IF n = 0 THEN <<>> ELSE Rendered(calls[n]) \o NewestFirst(n - 1)

\* a series as the claim takes it: the header has no split point and every
\* rendered text begins with a release heading
SeriesOfReleases ==
    /\ Written >= 1
    /\ \A c \in 1..Written : Succeeded(calls[c]) /\ BeginsWithRelease(Rendered(calls[c]))
    /\ \A c \in 1..Len(calls) : c > 1 => (c - 1) \in calls[c].after
    /\ SplitPoints(ToJsString(calls[1].args.changeLogHeader)) = {}

\* the content of the file before the series, "" when it was missing
InitialContent == IF calls[1].before.exists THEN calls[1].before.data ELSE <<>>

\* C17 as stated: after a series of successful, serialized, non-dry-run calls
\* the file is the header line, then the rendered text of every call, the
\* newest first, then the initial file from its split point on.
C17_SeriesKeepsEveryRelease ==
    SeriesOfReleases =>
        files[ChangelogFile].data =
            ToJsString(calls[1].args.changeLogHeader) \o <<"\n">>
                \o NewestFirst(Written) \o Preserved(InitialContent)

\* C17, amended: the same, where a missing initial file counts as one holding
\* a single newline and the newlines that end the file are written as one.
C17_SeriesKeepsEveryReleaseUpToTrailingNewlines ==
    SeriesOfReleases =>
        files[ChangelogFile].data =
            ToJsString(calls[1].args.changeLogHeader) \o <<"\n">>
                \o Normalized(NewestFirst(Written) \o Preserved(FoundText(calls[1])))

C17_Witness ==
    /\ SeriesOfReleases
    /\ Written = 3
    /\ calls[1].before = File(OldFile)
    /\ calls[1].args.changeLogHeader = TitleHeader
    /\ Len(calls[2].emitted) = 2
    /\ Rendered(calls[1]) # Rendered(calls[2])

----------------------------------------------------------------------------
(* C18 *)

\* the changelogs of a 'separate' call in the order the claim gives: those of
\* the unstable packages in package-list order, then the stable one
SeparatePaths ==
    LET unstable == SelectSeq(wc.packages, LAMBDA p : p.unstable)
    IN  [k \in 1..Len(unstable) |-> PathJoin(unstable[k].location, wc.args.changelogFile)]
            \o <<wc.args.changelogFile>>

\* the existence check of a call, the creation of a missing file, the read
BeginEvents(call) ==
    LET path == call.args.changelogFile
    IN  <<Event("exists", path)>>
            \o (IF ~ call.args.dryRun /\ ~ call.before.exists
                THEN <<Event("write", path)>> ELSE <<>>)
            \o (IF ~ call.args.dryRun THEN <<Event("read", path)>> ELSE <<>>)

\* the checks and reads of the first n calls, call after call
RECURSIVE Begun(_)
Begun(n) == IF n = 0 THEN <<>> ELSE Begun(n - 1) \o BeginEvents(calls[n])

\* C18: in 'separate' treatment the existence checks and old-content reads of
\* the package changelogs happen in package-list order and before those of
\* the stable changelog, and every write of a rendered changelog comes after
\* all of them; the renders then complete in any order.
C18_SeparateStartsAllThenCompletes ==
    SeparateStarted =>
        LET begun == Begun(Len(calls))
        IN  /\ Len(calls) = Len(SeparatePaths)
            /\ \A c \in 1..Len(calls) :
                  /\ calls[c].args.changelogFile = SeparatePaths[c]
                  /\ calls[c].awaiter = IF c < Len(calls) THEN "pkg" ELSE "stable"
            /\ Len(log) >= Len(begun)
            /\ SubSeq(log, 1, Len(begun)) = begun
            /\ \A k \in (Len(begun) + 1)..Len(log) :
                  /\ log[k].op = "write"
                  /\ \E call \in CallSet :
                        Succeeded(call) /\ call.args.changelogFile = log[k].path
                  /\ \A j \in (Len(begun) + 1)..Len(log) :
                        log[j].path = log[k].path => j = k

C18_Witness ==
    /\ SeparateStarted
    /\ Len(calls) = 3
    /\ ~ wc.args.dryRun
    /\ ~ calls[1].before.exists
    /\ Len(log) = Len(Begun(3)) + 3
    /\ log[Len(log) - 2].path = calls[3].args.changelogFile
    /\ log[Len(log) - 1].path = calls[2].args.changelogFile
    /\ log[Len(log)].path = calls[1].args.changelogFile
    /\ Len(wc.changelogResults) = 3
    /\ wc.changelogResults[3].filePath = calls[1].args.changelogFile

====
